---- MODULE Spec2Model ----
(***************************************************************************)
(* State-machine model of cvpy/biomedimage/BiomedImage.py.                 *)
(*                                                                         *)
(* The client is single threaded and every remote action is a blocking     *)
(* round trip, so the model has one program counter.  The CAS server is    *)
(* not part of the repository: every remote action either returns, with    *)
(* the effect its request names, or raises, with no effect.  All sessions  *)
(* are connections to the same server.                                     *)
(***************************************************************************)
EXTENDS Integers, Sequences, FiniteSets, TLC

\* ------------------------------------------------------------------ bounds
NumSessions == 2
NumErrors == 2

Sessions == 1..NumSessions
Errors == 1..NumErrors
\* cas_session before __init__ has run (the parameter's default, None)
NoSession == 0

\* ------------------------------------------------------- names in the code
TempQ == "quantify"
TempM == "_images_to_mask_"
MaskTbl == "mask_tbl"
ImageTbl == "image_tbl"
\* names a caller may give to the output table of quantify_sphericity
SphericityNames == {"sphericity_out", "quantify"}
\* names a caller may give to casout of mask_image
CasoutNames == {"masked", "_images_to_mask_"}

Roles == {"image", "dimension", "resolution", "imageFormat"}

\* column names of a freshly built ImageTable
DefaultColumns ==
    [image |-> "_image_", dimension |-> "_dimension_",
     resolution |-> "_resolution_", imageFormat |-> "_imageFormat_"]

\* the action sets __init__ loads, in order
ActionSetsNoFedsql == <<"image", "biomedimage">>
ActionSets == <<"image", "biomedimage", "fedsql">>

VARIABLES
    pc,          \* position of the client
    cas_session, \* BiomedImage._cas_session
    ctorSess,    \* the session __init__ was called with
    ctorLog,     \* loadactionset calls issued by the running/last __init__
    tables,      \* server: output/temporary tables that exist
    remoteMask,  \* server: column names of the mask table, by role
    mask,        \* the caller's mask ImageTable: column attributes
    image,       \* the caller's image ImageTable: column attributes
    maskDecoded, \* what mask.has_decoded_images() returns
    conn,        \* local variable conn of the running method
    outName,     \* sphericity.name / casout name of the running method
    branch,      \* mask_image: the branch taken (TRUE = decoded)
    alter_columns, \* mask_image: local variable alter_columns
    alterReq,    \* mask_image: the columns argument of the issued altertable call
    maskBefore,  \* mask as it was when the running/last mask_image began
    log,         \* remote calls issued by the running/last method call
    op,          \* the running/last method: "none", "qs", "mi"
    result,      \* outcome of the last ended call: "none", "ok", "raised"
    raised,      \* remote actions that raised in the running/last call
    prev,        \* op and raised of the call before the running/last one
    exc          \* the error that reached the caller last: {} or {e}

vars == <<pc, cas_session, ctorSess, ctorLog, tables, remoteMask, mask,
          image, maskDecoded, conn, outName, branch, alter_columns, alterReq,
          maskBefore, log,
          op, result, raised, prev, exc>>

serverVars == <<tables, remoteMask>>
ctorVars == <<ctorSess, ctorLog>>
objVars == <<mask, image, maskDecoded>>
callVars == <<conn, outName, branch, alter_columns, maskBefore, op, prev>>

Init ==
    /\ pc = "new"
    /\ cas_session = NoSession
    /\ ctorSess = NoSession
    /\ ctorLog = <<>>
    /\ tables = {}
    /\ remoteMask = DefaultColumns
    /\ mask = DefaultColumns
    /\ image = DefaultColumns
    /\ maskDecoded \in BOOLEAN
    /\ conn = NoSession
    /\ outName = ""
    /\ branch = FALSE
    /\ alter_columns = <<>>
    /\ alterReq = <<>>
    /\ maskBefore = DefaultColumns
    /\ log = <<>>
    /\ op = "none"
    /\ result = "none"
    /\ raised = {}
    /\ prev = [op |-> "none", raised |-> {}]
    /\ exc = {}

\* ------------------------------------------------------- pure helpers

\* alter_columns as mask_image builds it in each branch
AlterColumnsAlwaysFour(m, decoded) ==
    << [name |-> m.image, rename |-> "seg"],
       [name |-> m.dimension, rename |-> "dim"],
       [name |-> m.resolution, rename |-> "res"],
       [name |-> m.imageFormat, rename |-> "form"] >>
AlterColumns(m, decoded) ==
    IF decoded
    THEN << [name |-> m.image, rename |-> "seg"],
            [name |-> m.dimension, rename |-> "dim"],
            [name |-> m.resolution, rename |-> "res"],
            [name |-> m.imageFormat, rename |-> "form"] >>
    ELSE << [name |-> m.image, rename |-> "seg"] >>

\* the closure rename_columns of each branch, applied to the mask object
RenameColumnsDropsFormat(m, decoded) ==
    IF decoded
    THEN [m EXCEPT !.image = "seg", !.dimension = "dim", !.resolution = "res"]
    ELSE [m EXCEPT !.image = "seg"]
RenameColumns(m, decoded) ==
    IF decoded
    THEN [m EXCEPT !.image = "seg", !.dimension = "dim", !.resolution = "res",
                   !.imageFormat = "form"]
    ELSE [m EXCEPT !.image = "seg"]

\* effect of a returned altertable on the server's mask table: every column
\* a directive names takes the directive's new name
ApplyAlter(cols, req) ==
    [r \in Roles |->
        IF \E i \in 1..Len(req) : req[i].name = cols[r]
        THEN (CHOOSE d \in {req[i] : i \in 1..Len(req)} : d.name = cols[r]).rename
        ELSE cols[r]]

\* one remote call: the session it goes through, the action, the table it
\* works on and the table it writes ("" when none)
Call(s, a, t, o) == [sess |-> s, action |-> a, table |-> t, out |-> o]

\* the statement that follows the one at p when it returns
NextPcRenameFirst(p) ==
    CASE p = "qs_quantify" -> "qs_sql"
      [] p = "qs_sql"      -> "qs_drop"
      [] p = "qs_drop"     -> "idle"
      [] p = "mi_alter"    -> "mi_rename"
      [] p = "mi_rename"   -> "mi_sql"
      [] p = "mi_sql"      -> "mi_process"
      [] p = "mi_process"  -> "mi_drop"
      [] p = "mi_drop"     -> "idle"
NextPc(p) ==
    CASE p = "qs_quantify" -> "qs_sql"
      [] p = "qs_sql"      -> "qs_drop"
      [] p = "qs_drop"     -> "idle"
      [] p = "mi_alter"    -> "mi_sql"
      [] p = "mi_sql"      -> "mi_process"
      [] p = "mi_process"  -> "mi_drop"
      [] p = "mi_drop"     -> "mi_rename"
      [] p = "mi_rename"   -> "idle"

\* where control goes when the remote call at p raises: neither method has a
\* try block, so the exception leaves the method
RaisePcSwallow(p) == NextPc(p)
RaisePcFinallyRename(p) ==
    IF p \in {"mi_alter", "mi_sql", "mi_process", "mi_drop"} THEN "mi_rename" ELSE "idle"
RaisePc(p) == "idle"

\* ------------------------------------------------------- steps of a call

\* the remote call at pc returned
Returned ==
    /\ pc' = NextPc(pc)
    /\ result' = IF NextPc(pc) = "idle"
                 THEN (IF raised = {} THEN "ok" ELSE "raised")
                 ELSE result
    /\ UNCHANGED <<raised, exc>>

\* the remote call at pc, of action a, raised e: nothing catches it, so the
\* caller receives e itself
Raised(a, e) ==
    /\ pc' = RaisePc(pc)
    /\ raised' = raised \cup {a}
    /\ exc' = IF RaisePc(pc) = "idle" THEN {e} ELSE exc
    /\ result' = IF RaisePc(pc) = "idle" THEN "raised" ELSE result

\* entry of a method: conn = self._cas_session
Enter(o, n) ==
    /\ pc = "idle"
    /\ conn' = cas_session
    /\ outName' = n
    /\ op' = o
    /\ prev' = [op |-> op, raised |-> raised]
    /\ log' = <<>>
    /\ raised' = {}
    /\ result' = "none"
    /\ exc' = {}

\* ------------------------------------------------------- __init__, setter

Construct(s) ==
    /\ pc = "new"
    /\ pc' = "ctor"
    /\ cas_session' = s
    /\ ctorSess' = s
    /\ ctorLog' = <<>>
    /\ exc' = {}
    /\ UNCHANGED <<serverVars, objVars, callVars, alterReq, log, result, raised>>

LoadActionSet ==
    /\ pc = "ctor"
    /\ Len(ctorLog) < Len(ActionSets)
    /\ LET name == ActionSets[Len(ctorLog) + 1] IN
       /\ ctorLog' = Append(ctorLog, [sess |-> cas_session, name |-> name])
       /\ \/ /\ pc' = IF Len(ctorLog) + 1 = Len(ActionSets) THEN "idle" ELSE "ctor"
             /\ UNCHANGED <<cas_session, exc>>
          \/ \E e \in Errors :
             /\ pc' = "new"
             /\ cas_session' = NoSession
             /\ exc' = {e}
    /\ UNCHANGED <<ctorSess, serverVars, objVars, callVars, alterReq, log, result, raised>>

SetSession(s) ==
    /\ pc = "idle"
    /\ cas_session' = s
    /\ UNCHANGED <<pc, ctorVars, serverVars, objVars, callVars, alterReq, log,
                   result, raised, exc>>

\* ------------------------------------------------------- quantify_sphericity

QsStart(n) ==
    /\ Enter("qs", n)
    /\ pc' = "qs_quantify"
    /\ UNCHANGED <<cas_session, ctorVars, serverVars, objVars, branch,
                   alter_columns, alterReq, maskBefore>>

QsQuantify ==
    /\ pc = "qs_quantify"
    /\ log' = Append(log, Call(conn, "quantifybiomedimages", ImageTbl, TempQ))
    /\ \/ /\ tables' = tables \cup {TempQ}
          /\ Returned
       \/ /\ \E e \in Errors : Raised("quantifybiomedimages", e)
          /\ UNCHANGED tables
    /\ UNCHANGED <<cas_session, ctorVars, remoteMask, objVars, callVars, alterReq>>

QsSql ==
    /\ pc = "qs_sql"
    /\ log' = Append(log, Call(conn, "execdirect", TempQ, outName))
    /\ \/ /\ tables' = tables \cup {outName}
          /\ Returned
       \/ /\ \E e \in Errors : Raised("execdirect", e)
          /\ UNCHANGED tables
    /\ UNCHANGED <<cas_session, ctorVars, remoteMask, objVars, callVars, alterReq>>

QsDrop ==
    /\ pc = "qs_drop"
    /\ log' = Append(log, Call(conn, "dropTable", TempQ, ""))
    /\ \/ /\ tables' = tables \ {TempQ}
          /\ Returned
       \/ /\ \E e \in Errors : Raised("dropTable", e)
          /\ UNCHANGED tables
    /\ UNCHANGED <<cas_session, ctorVars, remoteMask, objVars, callVars, alterReq>>

\* ------------------------------------------------------- mask_image

MiStart(n) ==
    /\ Enter("mi", n)
    /\ pc' = "mi_alter"
    /\ branch' = maskDecoded
    /\ alter_columns' = AlterColumns(mask, maskDecoded)
    /\ alterReq' = <<>>
    /\ maskBefore' = mask
    /\ UNCHANGED <<cas_session, ctorVars, serverVars, objVars>>

MiAlter ==
    /\ pc = "mi_alter"
    /\ log' = Append(log, Call(conn, "altertable", MaskTbl, ""))
    /\ alterReq' = alter_columns
    /\ \/ /\ remoteMask' = ApplyAlter(remoteMask, alter_columns)
          /\ Returned
       \/ /\ \E e \in Errors : Raised("altertable", e)
          /\ UNCHANGED remoteMask
    /\ UNCHANGED <<cas_session, ctorVars, tables, objVars, callVars>>

MiSql ==
    /\ pc = "mi_sql"
    /\ log' = Append(log, Call(conn, "execdirect", MaskTbl, TempM))
    /\ \/ /\ tables' = tables \cup {TempM}
          /\ Returned
       \/ /\ \E e \in Errors : Raised("execdirect", e)
          /\ UNCHANGED tables
    /\ UNCHANGED <<cas_session, ctorVars, remoteMask, objVars, callVars, alterReq>>

MiProcess ==
    /\ pc = "mi_process"
    /\ log' = Append(log, Call(conn, "processbiomedimages", TempM, outName))
    /\ \/ /\ tables' = tables \cup {outName}
          /\ Returned
       \/ /\ \E e \in Errors : Raised("processbiomedimages", e)
          /\ UNCHANGED tables
    /\ UNCHANGED <<cas_session, ctorVars, remoteMask, objVars, callVars, alterReq>>

MiDrop ==
    /\ pc = "mi_drop"
    /\ log' = Append(log, Call(conn, "dropTable", TempM, ""))
    /\ \/ /\ tables' = tables \ {TempM}
          /\ Returned
       \/ /\ \E e \in Errors : Raised("dropTable", e)
          /\ UNCHANGED tables
    /\ UNCHANGED <<cas_session, ctorVars, remoteMask, objVars, callVars, alterReq>>

MiRename ==
    /\ pc = "mi_rename"
    /\ mask' = RenameColumns(mask, branch)
    /\ Returned
    /\ UNCHANGED <<cas_session, ctorVars, serverVars, image, maskDecoded,
                   callVars, alterReq, log>>

Next ==
    \/ \E s \in Sessions : Construct(s)
    \/ LoadActionSet
    \/ \E s \in Sessions : SetSession(s)
    \/ \E n \in SphericityNames : QsStart(n)
    \/ QsQuantify
    \/ QsSql
    \/ QsDrop
    \/ \E n \in CasoutNames : MiStart(n)
    \/ MiAlter
    \/ MiSql
    \/ MiProcess
    \/ MiDrop
    \/ MiRename

Spec == Init /\ [][Next]_vars

\* =================================================================== claims

Actions(l) == [i \in 1..Len(l) |-> l[i].action]
IsPrefix(a, b) == Len(a) <= Len(b) /\ \A i \in 1..Len(a) : a[i] = b[i]
Issued(a) == \E i \in 1..Len(log) : log[i].action = a
Drops == {i \in 1..Len(log) : log[i].action = "dropTable"}
QsOrder == <<"quantifybiomedimages", "execdirect", "dropTable">>
MiOrder == <<"altertable", "execdirect", "processbiomedimages", "dropTable">>
ShortNames == [image |-> "seg", dimension |-> "dim", resolution |-> "res",
               imageFormat |-> "form"]
\* the mask attributes the branch taken renames
BranchRoles == IF branch THEN Roles ELSE {"image"}
Agree == \A r \in Roles : mask[r] = remoteMask[r]
ThreeLoads ==
    << [sess |-> ctorSess, name |-> "image"],
       [sess |-> ctorSess, name |-> "biomedimage"],
       [sess |-> ctorSess, name |-> "fedsql"] >>

\* C1: in every mask_image call the remote calls are altertable, join SQL,
\* processbiomedimages over _images_to_mask_, drop of _images_to_mask_, in
\* that order, the local rename happens only after the drop returned, and the
\* table a drop names is never the caller's casout table.
C1_MaskImageOrder ==
    op = "mi" =>
        /\ IsPrefix(Actions(log), MiOrder)
        /\ (pc = "mi_rename" \/ mask # maskBefore) =>
               (Len(log) = 4 /\ raised = {})
        /\ \A i \in 1..Len(log) :
               log[i].action = "processbiomedimages" => log[i].table = TempM
        /\ \A i \in Drops : log[i].table = TempM /\ log[i].table # outName

\* the part of C1 the code keeps: order, and rename only after the drop
C1_OrderAndRenameLast ==
    op = "mi" =>
        /\ IsPrefix(Actions(log), MiOrder)
        /\ (pc = "mi_rename" \/ mask # maskBefore) =>
               (Len(log) = 4 /\ raised = {})
        /\ \A i \in Drops : log[i].table = TempM

\* C2: in every quantify_sphericity call the remote calls are
\* quantifybiomedimages writing 'quantify', the SQL creating the caller's
\* output table, then a drop of 'quantify', in that order; the table dropped
\* is 'quantify' and is never the caller's output table.
C2_QuantifyOrder ==
    op = "qs" =>
        /\ IsPrefix(log, << Call(conn, "quantifybiomedimages", ImageTbl, TempQ),
                            Call(conn, "execdirect", TempQ, outName),
                            Call(conn, "dropTable", TempQ, "") >>)
        /\ \A i \in Drops : log[i].table = TempQ /\ log[i].table # outName

\* the part of C2 the code keeps: the order and the name dropped
C2_OrderOnly ==
    op = "qs" =>
        IsPrefix(log, << Call(conn, "quantifybiomedimages", ImageTbl, TempQ),
                         Call(conn, "execdirect", TempQ, outName),
                         Call(conn, "dropTable", TempQ, "") >>)

\* C3: if the join SQL of mask_image raises, no processbiomedimages action is
\* issued in that call and the mask object's column attributes are what they
\* were before the call.
C3_JoinFailure ==
    (op = "mi" /\ "execdirect" \in raised) =>
        /\ ~Issued("processbiomedimages")
        /\ mask = maskBefore
        /\ pc = "idle"

C3_Witness ==
    /\ op = "mi" /\ pc = "idle" /\ raised = {"execdirect"}
    /\ Actions(log) = <<"altertable", "execdirect">>
    /\ mask = DefaultColumns

\* C4: when a call of quantify_sphericity or mask_image has ended, the
\* temporary table it created no longer exists, whatever the remote actions did.
C4_NoTempOutlives ==
    pc = "idle" =>
        /\ (op = "qs" /\ Issued("quantifybiomedimages")
                /\ "quantifybiomedimages" \notin raised) => TempQ \notin tables
        /\ (op = "mi" /\ Issued("execdirect")
                /\ "execdirect" \notin raised) => TempM \notin tables

\* C5: the altertable call of mask_image asks for four renames (image->seg,
\* dimension->dim, resolution->res, imageFormat->form) when the mask holds
\* decoded images and for one (image->seg) when it does not; one altertable
\* call is issued per mask_image call, and the branch is taken before any
\* remote action.
C5_AlterRequest ==
    op = "mi" =>
        /\ branch = maskDecoded
        /\ alter_columns =
              IF branch
              THEN << [name |-> maskBefore.image, rename |-> "seg"],
                      [name |-> maskBefore.dimension, rename |-> "dim"],
                      [name |-> maskBefore.resolution, rename |-> "res"],
                      [name |-> maskBefore.imageFormat, rename |-> "form"] >>
              ELSE << [name |-> maskBefore.image, rename |-> "seg"] >>
        /\ (log = <<>>) => (alterReq = <<>> /\ pc = "mi_alter")
        /\ (log # <<>>) =>
              /\ alterReq = alter_columns
              /\ Len(alterReq) = (IF branch THEN 4 ELSE 1)
              /\ {i \in 1..Len(log) : log[i].action = "altertable"} = {1}

C5_Witness ==
    /\ op = "mi" /\ pc = "idle" /\ ~branch
    /\ alterReq = << [name |-> "_image_", rename |-> "seg"] >>
    /\ Len(log) = 4

\* C6: after a successful mask_image call the mask object's attributes are
\* the short names of that call's altertable request: all four in the decoded
\* branch, image alone in the encoded branch with the other three unchanged;
\* the attributes rewritten are those of the columns the request renames, and
\* the image object's attributes never change.
C6_LocalRename ==
    /\ image = DefaultColumns
    /\ (op = "mi" /\ pc = "idle" /\ result = "ok") =>
          /\ mask.image = "seg"
          /\ branch => (mask.dimension = "dim" /\ mask.resolution = "res"
                        /\ mask.imageFormat = "form")
          /\ ~branch => (mask.dimension = maskBefore.dimension
                         /\ mask.resolution = maskBefore.resolution
                         /\ mask.imageFormat = maskBefore.imageFormat)
          /\ \A r \in Roles :
                IF \E i \in 1..Len(alterReq) : alterReq[i].name = maskBefore[r]
                THEN \E i \in 1..Len(alterReq) :
                        /\ alterReq[i].name = maskBefore[r]
                        /\ mask[r] = alterReq[i].rename
                ELSE mask[r] = maskBefore[r]

C6_Witness ==
    /\ op = "mi" /\ pc = "idle" /\ result = "ok" /\ branch
    /\ maskBefore = DefaultColumns
    /\ mask = ShortNames

\* C7: a constructed BiomedImage has issued exactly three loadactionset calls
\* on the session it was constructed with, 'image', 'biomedimage' and
\* 'fedsql', each once, and no other remote call is made through the wrapper
\* before they have returned.
C7_ThreeLoads ==
    /\ pc \notin {"new", "ctor"} => ctorLog = ThreeLoads
    /\ pc \in {"new", "ctor"} => (log = <<>> /\ op = "none")
    /\ pc = "ctor" => IsPrefix(ctorLog, ThreeLoads)

C7_Witness ==
    /\ pc = "idle" /\ op = "qs" /\ result = "ok"
    /\ ctorLog = ThreeLoads

\* C9: in both methods a failing remote action ends the call there: no later
\* action is issued, none is repeated, and the caller receives the remote
\* error; a temporary table created before the failure ('quantify' when the
\* SQL step fails, '_images_to_mask_' when the process step fails) exists when
\* the call ends and when the next call starts.
C9_FailureAborts ==
    /\ op = "qs" => IsPrefix(Actions(log), QsOrder)
    /\ op = "mi" => IsPrefix(Actions(log), MiOrder)
    /\ raised # {} =>
          /\ pc = "idle" /\ result = "raised"
          /\ raised = {log[Len(log)].action}
          /\ \E e \in Errors : exc = {e}
    /\ (pc = "idle" /\ op = "qs" /\ raised = {"execdirect"}) => TempQ \in tables
    /\ (pc = "idle" /\ op = "mi" /\ raised = {"processbiomedimages"}) =>
          TempM \in tables
    /\ (pc \in {"qs_quantify", "mi_alter"} /\ prev.op = "qs"
            /\ prev.raised = {"execdirect"}) => TempQ \in tables
    /\ (pc \in {"qs_quantify", "mi_alter"} /\ prev.op = "mi"
            /\ prev.raised = {"processbiomedimages"}) => TempM \in tables

C9_Witness ==
    /\ pc = "mi_alter" /\ prev.op = "mi"
    /\ prev.raised = {"processbiomedimages"}
    /\ TempM \in tables

\* C10 as stated: when mask_image fails after altertable returned, the remote
\* mask columns carry the short names while the mask object holds the original
\* names, and local and remote names agree after a call only if the call
\* succeeded or failed at the altertable step.
C10_AgreeOnlyOnSuccess ==
    (pc = "idle" /\ op = "mi") =>
        /\ (raised # {} /\ raised # {"altertable"}) =>
              /\ \A r \in BranchRoles : remoteMask[r] = ShortNames[r]
              /\ mask = maskBefore
        /\ Agree => (result = "ok" \/ raised = {"altertable"})

\* C10 amended: as C10, except that local and remote names also agree after a
\* failed call when the mask object already held the short names of the
\* branch's columns when the call began.
C10_Amended ==
    (pc = "idle" /\ op = "mi") =>
        /\ (raised # {} /\ raised # {"altertable"}) =>
              /\ \A r \in BranchRoles : remoteMask[r] = ShortNames[r]
              /\ mask = maskBefore
        /\ Agree => \/ result = "ok"
                    \/ raised = {"altertable"}
                    \/ \A r \in BranchRoles : maskBefore[r] = ShortNames[r]

C10_Witness ==
    /\ pc = "idle" /\ op = "mi" /\ raised = {"execdirect"} /\ branch
    /\ maskBefore = DefaultColumns
    /\ mask = DefaultColumns
    /\ remoteMask = ShortNames

====
